---- MODULE Spec2Model ----
(***************************************************************************)
(* A model of polymer_states (szabba/applied-sims): the Link and MoveType  *)
(* taxonomies, the elementary-move rules of a Polymer, the aggregation of  *)
(* transition rates, the closure all_with_n_links and the assembly of the  *)
(* transition matrix.  The pure functions of the package are operators;    *)
(* the actions are the calls a client of the package makes.                *)
(***************************************************************************)
EXTENDS Integers, Sequences, FiniteSets, TLC

(* ------------------------------------------------------------------ *)
(* Bounds of the model                                                  *)
(* ------------------------------------------------------------------ *)

\* longest link sequence handed to Polymer(...)
MaxLen == 3

\* largest n handed to all_with_n_links / transition_matrix
MaxN == 3

(* ------------------------------------------------------------------ *)
(* Link                                                                 *)
(* ------------------------------------------------------------------ *)

\* Link.VALID_LINK_VALUES = {1 << i for i in range(5)}
VALID_LINK_VALUES == {2^i : i \in 0..4}

\* Link.UP, Link.DOWN, Link.LEFT, Link.RIGHT, Link.SLACK = Link.LINKS
\* (the five names are bound to the five values in the set's iteration order)
UP == 1
DOWN == 2
LEFT == 4
RIGHT == 8
SLACK == 16

\* values of the unit tests that are no link values
InvalidMinusOne == -1
InvalidThirtyTwo == 32

\* the absent link of an edge pair (Python's None)
None == 0

Raise(err) == [raised |-> err, value |-> None]
Return(v) == [raised |-> "none", value |-> v]

\* a construction that accepts one value too many (range(6) for range(5))
LinkNewAcceptsSixValues(value) ==
    IF value \notin {2^i : i \in 0..5}
        THEN Raise("ValueError")
        ELSE Return(value)

\* Link.__new__
LinkNew(value) ==
    IF value \notin VALID_LINK_VALUES
        THEN Raise("ValueError")
        ELSE Return(value)

\* Link.LINKS = {Link(i) for i in Link.VALID_LINK_VALUES}
LINKS == {LinkNew(i).value : i \in VALID_LINK_VALUES}

is_slack(link) == link = SLACK

is_taut(link) == ~is_slack(link)

\* Link.TAUT_LINKS
TAUT_LINKS == {link \in LINKS : is_taut(link)}

PERPENDICULAR_PAIRS ==
    { <<UP, LEFT>>, <<UP, RIGHT>>, <<DOWN, LEFT>>, <<DOWN, RIGHT>>,
      <<LEFT, UP>>, <<LEFT, DOWN>>, <<RIGHT, UP>>, <<RIGHT, DOWN>> }

\* Link.opposite
opposite(link) ==
    CASE link = UP -> DOWN
      [] link = DOWN -> UP
      [] link = LEFT -> RIGHT
      [] link = RIGHT -> LEFT
      [] link = SLACK -> SLACK

\* HERNIA_PAIRS = {(link, link.opposite()) for link in Link.TAUT_LINKS}
HERNIA_PAIRS == {<<link, opposite(link)>> : link \in TAUT_LINKS}

(* ------------------------------------------------------------------ *)
(* MoveType                                                             *)
(* ------------------------------------------------------------------ *)

VALID_MOVE_TYPE_VALUES == {2^i : i \in 0..7}

\* the eight names are bound to the eight values in the set's iteration
\* order; these are the values CPython binds
REPTATION == 1
BARRIER_CROSSING == 2
HERNIA_ == 4
END_EXTENSION == 8
END_WIGGLE == 16
HERNIA_CREATION == 32
HERNIA_ANNIHILATION == 64
END_CONTRACTION == 128

MOVE_TYPES == VALID_MOVE_TYPE_VALUES

(* ------------------------------------------------------------------ *)
(* Polymer: construction and pairs                                      *)
(* ------------------------------------------------------------------ *)

\* Polymer.__init__: self.__links = tuple(map(Link, links))
PolymerNew(links) ==
    IF \E i \in 1..Len(links) : LinkNew(links[i]).raised # "none"
        THEN [raised |-> "ValueError", value |-> << >>]
        ELSE [raised |-> "none",
              value |-> [i \in 1..Len(links) |-> LinkNew(links[i]).value]]

\* [Link.SLACK] * link_count
Repeat(link, link_count) == [i \in 1..link_count |-> link]

\* Polymer.all_curled_up
all_curled_up(link_count) == PolymerNew(Repeat(SLACK, link_count))

\* Polymer.link_pairs: zip((None, ) + links, links + (None, )); the pair of
\* position p (counted from 0, as enumerate does) is link_pairs(self)[p + 1]
link_pairs(self) ==
    LET before == <<None>> \o self
        after == self \o <<None>>
    IN  [k \in 1..(Len(self) + 1) |-> <<before[k], after[k]>>]

is_edge_pair(pair) == None \in {pair[1], pair[2]}

is_bent_pair(pair) == pair \in PERPENDICULAR_PAIRS

\* a reptation test that forgets the chain ends
can_reptate_at_edges(pair) == SLACK \in {pair[1], pair[2]}

\* a reptation test that forgets to ask for a slack link
can_reptate_without_slack(pair) == ~is_edge_pair(pair)

can_reptate(pair) == ~is_edge_pair(pair) /\ SLACK \in {pair[1], pair[2]}

is_hernia(pair) == {pair[1], pair[2]} \in {{UP, DOWN}, {LEFT, RIGHT}}

both_slacks(pair) == pair = <<SLACK, SLACK>>

\* a substitution that looks for the second link on the wrong side of p
substitute_pair_off_by_one(self, p, replacement_pair) ==
    LET first == replacement_pair[1]
        second == replacement_pair[2]
        vlinks == <<None>> \o self \o <<None>>
        new_vlinks == [k \in 1..Len(vlinks) |->
                         LET i == k - 1
                         IN  IF i = p THEN first
                             ELSE IF i + 1 = p THEN second
                             ELSE vlinks[k]]
    IN  PolymerNew(SubSeq(new_vlinks, 2, Len(new_vlinks) - 1))

\* a substitution that unpacks the pair the other way round
substitute_pair_swapped(self, p, replacement_pair) ==
    LET second == replacement_pair[1]
        first == replacement_pair[2]
        vlinks == <<None>> \o self \o <<None>>
        new_vlinks == [k \in 1..Len(vlinks) |->
                         LET i == k - 1
                         IN  IF i = p THEN first
                             ELSE IF i - 1 = p THEN second
                             ELSE vlinks[k]]
    IN  PolymerNew(SubSeq(new_vlinks, 2, Len(new_vlinks) - 1))

\* Polymer.substitute_pair; p counts from 0.  The result is built by the
\* constructor, Polymer(new_vlinks[1:-1])
substitute_pair(self, p, replacement_pair) ==
    LET first == replacement_pair[1]
        second == replacement_pair[2]
        vlinks == <<None>> \o self \o <<None>>
        new_vlinks == [k \in 1..Len(vlinks) |->
                         LET i == k - 1
                         IN  IF i = p THEN first
                             ELSE IF i - 1 = p THEN second
                             ELSE vlinks[k]]
    IN  PolymerNew(SubSeq(new_vlinks, 2, Len(new_vlinks) - 1))

(* ------------------------------------------------------------------ *)
(* The elementary moves                                                 *)
(* ------------------------------------------------------------------ *)

\* Polymer.__create_hernias_at
\* a creation that only knows the vertical hernias
create_hernias_at_vertical_only(self, i, current) ==
    { substitute_pair(self, i, pair).value :
        pair \in { pr \in { <<UP, DOWN>>, <<DOWN, UP>> } : pr # current } }

create_hernias_at(self, i, current) ==
    { substitute_pair(self, i, pair).value :
        pair \in { pr \in { <<UP, DOWN>>, <<DOWN, UP>>,
                            <<LEFT, RIGHT>>, <<RIGHT, LEFT>> } : pr # current } }

\* Polymer.__annihilate_hernia_at
annihilate_hernia_at(self, i) ==
    substitute_pair(self, i, <<SLACK, SLACK>>).value

\* a reptation that does not compare the two links
reptate_at_unchecked(self, i, pair) ==
    LET first == pair[1]
        second == pair[2]
    IN  { substitute_pair(self, i, <<second, first>>).value }

\* Polymer.__reptate_at
reptate_at(self, i, pair) ==
    LET first == pair[1]
        second == pair[2]
    IN  IF first # second
            THEN { substitute_pair(self, i, <<second, first>>).value }
            ELSE {}

\* a flip that writes the pair back in its old order
flip_at_keeps_order(self, i, current) ==
    LET first == current[1]
        second == current[2]
    IN  substitute_pair(self, i, <<first, second>>).value

\* Polymer.__flip_at
flip_at(self, i, current) ==
    LET first == current[1]
        second == current[2]
    IN  substitute_pair(self, i, <<second, first>>).value

\* a redirection that only turns the hernia round
change_hernia_bend_direction_reverses_only(self, i, current) ==
    { substitute_pair(self, i, <<current[2], current[1]>>).value }

\* Polymer.__change_hernia_bend_direction
change_hernia_bend_direction(self, i, current) ==
    { substitute_pair(self, i, hernia).value :
        hernia \in { h \in HERNIA_PAIRS : h # current } }

\* a contraction that only knows the vertical directions
contract_taut_ends_vertical_only(link) ==
    IF link \in {UP, DOWN} THEN {SLACK} ELSE {}

\* a contraction that never contracts
contract_taut_ends_never(link) == {}

\* the function decorated as __contract_taut_ends_if_possible
contract_taut_ends(link) == IF is_taut(link) THEN {SLACK} ELSE {}

\* an extension that never extends upwards
extract_slack_ends_without_up(link) ==
    IF is_slack(link) THEN TAUT_LINKS \ {UP} ELSE {}

\* the function decorated as __extract_slack_ends_if_possible
extract_slack_ends(link) == IF is_slack(link) THEN TAUT_LINKS ELSE {}

\* a wiggle that forgets to leave the current direction out
wiggle_end_links_keeps_current(link) ==
    IF ~is_taut(link) THEN {} ELSE TAUT_LINKS

\* the function decorated as __wiggle_end_links_if_possible
wiggle_end_links(link) ==
    IF ~is_taut(link)
        THEN {}
        ELSE { taut_link \in TAUT_LINKS : taut_link # link }

\* the decorator at_end_pairs: the wrapper around f, a function of a link
at_end_pairs(f, self, p, pair) ==
    IF ~is_edge_pair(pair)
        THEN Return({})
        ELSE LET present == SelectSeq(pair, LAMBDA l : l # None)
             IN  IF Len(present) = 0
                     THEN Raise("IndexError")
                     ELSE LET link == present[1]
                              new_links == f[link]
                              new_pairs ==
                                { [k \in 1..2 |->
                                     IF pair[k] = None THEN pair[k] ELSE new_link] :
                                  new_link \in new_links }
                          IN  Return({ substitute_pair(self, p, new_pair).value :
                                       new_pair \in new_pairs })

contract_taut_ends_if_possible(self, p, pair) ==
    at_end_pairs([link \in LINKS |-> contract_taut_ends(link)], self, p, pair)

extract_slack_ends_if_possible(self, p, pair) ==
    at_end_pairs([link \in LINKS |-> extract_slack_ends(link)], self, p, pair)

wiggle_end_links_if_possible(self, p, pair) ==
    at_end_pairs([link \in LINKS |-> wiggle_end_links(link)], self, p, pair)

create_hernias_if_possible(self, p, pair) ==
    IF both_slacks(pair)
        THEN Return(create_hernias_at(self, p, pair))
        ELSE Return({})

repate_if_possible(self, p, pair) ==
    IF can_reptate(pair)
        THEN Return(reptate_at(self, p, pair))
        ELSE Return({})

anihilate_hernias_if_possible(self, p, pair) ==
    IF is_hernia(pair)
        THEN Return({ annihilate_hernia_at(self, p) })
        ELSE Return({})

change_hernia_bend_direction_if_possible(self, p, pair) ==
    IF is_hernia(pair)
        THEN Return(change_hernia_bend_direction(self, p, pair))
        ELSE Return({})

flip_bent_pair_if_possible(self, p, pair) ==
    IF is_bent_pair(pair)
        THEN Return({ flip_at(self, p, pair) })
        ELSE Return({})

\* the length of self.__polymer_transformers
TransformerCount == 8

\* self.__polymer_transformers[t - 1](p, pair)
polymer_transformers(t, self, p, pair) ==
    CASE t = 1 -> contract_taut_ends_if_possible(self, p, pair)
      [] t = 2 -> extract_slack_ends_if_possible(self, p, pair)
      [] t = 3 -> wiggle_end_links_if_possible(self, p, pair)
      [] t = 4 -> create_hernias_if_possible(self, p, pair)
      [] t = 5 -> repate_if_possible(self, p, pair)
      [] t = 6 -> anihilate_hernias_if_possible(self, p, pair)
      [] t = 7 -> change_hernia_bend_direction_if_possible(self, p, pair)
      [] t = 8 -> flip_bent_pair_if_possible(self, p, pair)

\* the move kind the design attaches to each transformer
MoveTypeOf(t) ==
    CASE t = 1 -> END_CONTRACTION
      [] t = 2 -> END_EXTENSION
      [] t = 3 -> END_WIGGLE
      [] t = 4 -> HERNIA_CREATION
      [] t = 5 -> REPTATION
      [] t = 6 -> HERNIA_ANNIHILATION
      [] t = 7 -> HERNIA_
      [] t = 8 -> BARRIER_CROSSING

(* ------------------------------------------------------------------ *)
(* Rates and their aggregation                                          *)
(* ------------------------------------------------------------------ *)

\* int.__or__ on non-negative integers
RECURSIVE BitOr(_, _)
BitOr(a, b) ==
    IF a = 0 THEN b
    ELSE IF b = 0 THEN a
    ELSE (IF a % 2 = 1 \/ b % 2 = 1 THEN 1 ELSE 0)
         + 2 * BitOr(a \div 2, b \div 2)

\* sum_with(a, b) for operator.add and operator.or_
SumWith(sum_with, a, b) ==
    IF sum_with = "add" THEN a + b ELSE BitOr(a, b)

\* the table of the unit tests, every MoveType mapped to itself
MOVE_RATES == [move_type \in MOVE_TYPES |-> move_type]

\* the table reachable_from passes, {}
EmptyRates == [move_type \in {} |-> 0]

\* the table generate_matrix builds, here with h = 2 and c = 3
GeneratedRates ==
    [move_type \in MOVE_TYPES |->
        CASE move_type \in {REPTATION, END_EXTENSION} -> 1
          [] move_type = BARRIER_CROSSING -> 3
          [] OTHER -> 2]

\* a lookup that skips the moves the table has no rate for
new_polymers_skips_unrated(move_rates, t, self, p, pair) ==
    IF MoveTypeOf(t) \in DOMAIN move_rates
        THEN polymer_transformers(t, self, p, pair)
        ELSE Return({})

\* new_polymers = t(p, pair)
new_polymers(move_rates, t, self, p, pair) ==
    polymer_transformers(t, self, p, pair)

\* a rate that adds the table's entry for the move where there is one
new_rate_reads_table(move_rates, t, sum_with, zero, rates, new_polymer) ==
    LET old_rate == IF new_polymer \in DOMAIN rates
                        THEN rates[new_polymer]
                        ELSE zero
        rate == IF MoveTypeOf(t) \in DOMAIN move_rates
                    THEN move_rates[MoveTypeOf(t)]
                    ELSE zero
    IN  SumWith(sum_with, old_rate, rate)

\* old_rate = rates.get(new_polymer, zero); new_rate = sum_with(old_rate, zero)
new_rate(move_rates, t, sum_with, zero, rates, new_polymer) ==
    LET old_rate == IF new_polymer \in DOMAIN rates
                        THEN rates[new_polymer]
                        ELSE zero
    IN  SumWith(sum_with, old_rate, zero)

\* the two loops of transition_rates, flattened: step k is pair position
\* k \div 8 and transformer k % 8 + 1
RECURSIVE rates_loop(_, _, _, _, _, _)
rates_loop(self, move_rates, sum_with, zero, k, rates) ==
    LET pairs == link_pairs(self)
    IN  IF k >= Len(pairs) * TransformerCount
            THEN Return(rates)
            ELSE LET p == k \div TransformerCount
                     t == (k % TransformerCount) + 1
                     pair == pairs[p + 1]
                     got == new_polymers(move_rates, t, self, p, pair)
                 IN  IF got.raised # "none"
                         THEN Raise(got.raised)
                         ELSE IF got.value = {}
                         THEN rates_loop(self, move_rates, sum_with, zero,
                                         k + 1, rates)
                         ELSE rates_loop(self, move_rates, sum_with, zero, k + 1,
                                [q \in (DOMAIN rates) \union got.value |->
                                   IF q \in got.value
                                       THEN new_rate(move_rates, t, sum_with,
                                                     zero, rates, q)
                                       ELSE rates[q]])

\* Polymer.transition_rates
transition_rates(self, move_rates, sum_with, zero) ==
    rates_loop(self, move_rates, sum_with, zero, 0, << >>)

\* Polymer.reachable_from: set(self.transition_rates({}).keys())
reachable_from(self) ==
    LET got == transition_rates(self, EmptyRates, "add", 0)
    IN  IF got.raised # "none"
            THEN Raise(got.raised)
            ELSE Return(DOMAIN got.value)

(* ------------------------------------------------------------------ *)
(* TransitionMatrix                                                     *)
(* ------------------------------------------------------------------ *)

\* the matrix assembled from a state set: every (s, target) -> rate entry of
\* transition_rates(s, rates_table, combine), with the full state set
TransitionMatrixNew(states, move_rates, sum_with, zero) ==
    [ built |-> TRUE,
      entries |-> [s \in states |->
                     transition_rates(s, move_rates, sum_with, zero).value],
      states |-> states,
      zero |-> zero ]

NoMatrix == [built |-> FALSE, entries |-> << >>, states |-> {}, zero |-> 0]

\* matrix[origin, target]
matrix_getitem(m, origin, target) ==
    IF origin \in DOMAIN m.entries /\ target \in DOMAIN m.entries[origin]
        THEN m.entries[origin][target]
        ELSE m.zero

\* matrix.states()
matrix_states(m) == m.states

\* matrix.size()
matrix_size(m) == Cardinality(m.states)

(* ------------------------------------------------------------------ *)
(* The calls of a client                                                *)
(* ------------------------------------------------------------------ *)

VARIABLES
    last_call,    \* the name of the call made last
    raised,       \* the error it raised, "none" when it returned
    value,        \* Link(value): the argument
    link,         \* Link(value): the Link returned
    links,        \* Polymer(links) and all_curled_up: the sequence handed over
    constructed,  \* whether a Polymer object exists
    polymer,      \* its links()
    move_rates,   \* the arguments of transition_rates / transition_matrix
    sum_with,
    zero,
    rates,        \* the dict transition_rates returned
    reachable,    \* the set reachable_from returned
    done,         \* the queries that returned for the current Polymer
    position,     \* substitute_pair(p, replacement_pair): the arguments
    replacement_pair,
    substituted,  \* the links() of the Polymer substitute_pair returned
    pc,           \* where all_with_n_links is: "idle", "loop", "returned"
    caller,       \* who runs the closure
    n,            \* its argument
    old,          \* its locals
    new,
    grow_by,
    matrix        \* the TransitionMatrix built last

linkVars == <<value, link>>
polymerVars == <<links, constructed, polymer>>
tableVars == <<move_rates, sum_with, zero>>
ratesVars == <<rates, reachable, done>>
substituteVars == <<position, replacement_pair, substituted>>
closureVars == <<pc, caller, n, old, new, grow_by>>
vars == <<last_call, raised, linkVars, polymerVars, tableVars, ratesVars,
          substituteVars, closureVars, matrix>>

\* the values handed to Link(...)
LinkInputs == VALID_LINK_VALUES \union {InvalidMinusOne, InvalidThirtyTwo}

\* the sequences handed to Polymer(...)
PolymerInputs == UNION { [1..k -> LinkInputs] : k \in 0..MaxLen }

RateTables == {MOVE_RATES, EmptyRates, GeneratedRates}
Combinators == {"add", "or_"}
Zeros == {0, 1}

NoLink == /\ value = None
          /\ link = None
NoPolymer == /\ links = << >>
             /\ constructed = FALSE
             /\ polymer = << >>
NoTable == /\ move_rates = EmptyRates
           /\ sum_with = "add"
           /\ zero = 0
NoRates == /\ rates = << >>
           /\ reachable = {}
           /\ done = {}
NoSubstitute == /\ position = 0
                /\ replacement_pair = <<None, None>>
                /\ substituted = << >>
NoClosure == /\ pc = "idle"
             /\ caller = "none"
             /\ n = 0
             /\ old = {}
             /\ new = {}
             /\ grow_by = {}

ResetLink == /\ value' = None
             /\ link' = None
ResetPolymer == /\ links' = << >>
                /\ constructed' = FALSE
                /\ polymer' = << >>
ResetTable == /\ move_rates' = EmptyRates
              /\ sum_with' = "add"
              /\ zero' = 0
ResetRates == /\ rates' = << >>
              /\ reachable' = {}
              /\ done' = {}
ResetSubstitute == /\ position' = 0
                   /\ replacement_pair' = <<None, None>>
                   /\ substituted' = << >>
ResetClosure == /\ pc' = "idle"
                /\ caller' = "none"
                /\ n' = 0
                /\ old' = {}
                /\ new' = {}
                /\ grow_by' = {}

Init ==
    /\ last_call = "none"
    /\ raised = "none"
    /\ NoLink
    /\ NoPolymer
    /\ NoTable
    /\ NoRates
    /\ NoSubstitute
    /\ NoClosure
    /\ matrix = NoMatrix

\* The functions of the package are pure and a Polymer is immutable, so a
\* behaviour is one scenario of a client: one call, and for a Polymer the
\* queries made on it.
Fresh == last_call = "none"

\* Link(v)
LinkCall(v) ==
    /\ Fresh
    /\ \E got \in {LinkNew(v)} :
           /\ last_call' = "Link"
           /\ raised' = got.raised
           /\ value' = v
           /\ link' = got.value
    /\ ResetPolymer /\ ResetTable /\ ResetRates /\ ResetSubstitute /\ ResetClosure
    /\ matrix' = NoMatrix

\* Polymer(ls)
PolymerCall(ls) ==
    /\ Fresh
    /\ \E got \in {PolymerNew(ls)} :
           /\ last_call' = "Polymer"
           /\ raised' = got.raised
           /\ links' = ls
           /\ constructed' = (got.raised = "none")
           /\ polymer' = got.value
    /\ ResetLink /\ ResetTable /\ ResetRates /\ ResetSubstitute /\ ResetClosure
    /\ matrix' = NoMatrix

\* Polymer.all_curled_up(link_count)
AllCurledUpCall(link_count) ==
    /\ Fresh
    /\ \E got \in {all_curled_up(link_count)} :
           /\ last_call' = "all_curled_up"
           /\ raised' = got.raised
           /\ links' = Repeat(SLACK, link_count)
           /\ constructed' = (got.raised = "none")
           /\ polymer' = got.value
    /\ ResetLink /\ ResetTable /\ ResetRates /\ ResetSubstitute /\ ResetClosure
    /\ matrix' = NoMatrix

\* polymer.transition_rates(table, combine, z)
TransitionRatesCall(table, combine, z) ==
    /\ constructed
    /\ last_call # "substitute_pair"
    /\ "transition_rates" \notin done
    /\ \E got \in {transition_rates(polymer, table, combine, z)} :
           /\ last_call' = "transition_rates"
           /\ raised' = got.raised
           /\ move_rates' = table
           /\ sum_with' = combine
           /\ zero' = z
           /\ rates' = IF got.raised = "none" THEN got.value ELSE << >>
           /\ done' = IF got.raised = "none"
                          THEN done \union {"transition_rates"}
                          ELSE done
    /\ UNCHANGED <<linkVars, polymerVars, reachable, substituteVars,
                   closureVars, matrix>>

\* polymer.reachable_from()
ReachableFromCall ==
    /\ constructed
    /\ last_call # "substitute_pair"
    /\ "reachable_from" \notin done
    /\ \E got \in {reachable_from(polymer)} :
           /\ last_call' = "reachable_from"
           /\ raised' = got.raised
           /\ reachable' = IF got.raised = "none" THEN got.value ELSE {}
           /\ done' = IF got.raised = "none"
                          THEN done \union {"reachable_from"}
                          ELSE done
    /\ UNCHANGED <<linkVars, polymerVars, tableVars, rates, substituteVars,
                   closureVars, matrix>>

\* the links handed to substitute_pair: a vertical, a horizontal or the
\* slack Link, or None for the absent side
SubstituteInputs == {UP, LEFT, SLACK, None}

\* polymer.substitute_pair(p, pr), the first query made on the Polymer
SubstitutePairCall(p, pr) ==
    /\ constructed
    /\ last_call \in {"Polymer", "all_curled_up"}
    /\ \E got \in {substitute_pair(polymer, p, pr)} :
           /\ last_call' = "substitute_pair"
           /\ raised' = got.raised
           /\ position' = p
           /\ replacement_pair' = pr
           /\ substituted' = got.value
    /\ UNCHANGED <<linkVars, polymerVars, tableVars, ratesVars, closureVars,
                   matrix>>

\* the reduction with operator.and_ for operator.or_
intersection_of_reachable(polymers) ==
    LET got == { reachable_from(q) : q \in polymers }
        failed == { g \in got : g.raised # "none" }
    IN  IF polymers = {}
            THEN Raise("TypeError")
            ELSE IF failed # {}
                THEN Raise((CHOOSE g \in failed : TRUE).raised)
                ELSE Return({ r \in UNION { g.value : g \in got } :
                              \A g \in got : r \in g.value })

\* reduce(operator.or_, (polymer.reachable_from() for polymer in grow_by)):
\* the union of the sets, a TypeError on an empty grow_by, and the error of
\* reachable_from when it raises
union_of_reachable(polymers) ==
    LET got == { reachable_from(q) : q \in polymers }
        failed == { g \in got : g.raised # "none" }
    IN  IF polymers = {}
            THEN Raise("TypeError")
            ELSE IF failed # {}
                THEN Raise((CHOOSE g \in failed : TRUE).raised)
                ELSE Return(UNION { g.value : g \in got })

\* all_with_n_links, up to the loop: curled_up, old, new and grow_by
ClosureBegin(who, count) ==
    \E curled_up \in {all_curled_up(count)} :
    \E got \in {reachable_from(curled_up.value)} :
        /\ caller' = who
        /\ n' = count
        /\ IF got.raised # "none"
               THEN /\ raised' = got.raised
                    /\ pc' = "idle"
                    /\ old' = {}
                    /\ new' = {}
                    /\ grow_by' = {}
               ELSE /\ raised' = "none"
                    /\ pc' = "loop"
                    /\ old' = {}
                    /\ new' = {curled_up.value}
                    /\ grow_by' = got.value

\* Polymer.all_with_n_links(count) is called
AllWithNLinksBegin(count) ==
    /\ Fresh
    /\ last_call' = "all_with_n_links"
    /\ ClosureBegin("all_with_n_links", count)
    /\ ResetLink /\ ResetPolymer /\ ResetTable /\ ResetRates /\ ResetSubstitute
    /\ matrix' = NoMatrix

\* a round that merges the frontier but never recomputes it
AllWithNLinksLoopKeepsFrontier ==
    /\ pc = "loop"
    /\ new # old
    /\ old' = new
    /\ new' = new \union grow_by
    /\ UNCHANGED <<last_call, raised, linkVars, polymerVars, tableVars,
                   ratesVars, substituteVars, pc, caller, n, grow_by, matrix>>

\* a round that keeps, as the accumulator, what the frontier adds to it
AllWithNLinksLoopDropsAccumulator ==
    /\ pc = "loop"
    /\ new # old
    /\ \E got \in {union_of_reachable(grow_by)} :
           /\ old' = new
           /\ new' = grow_by \ new
           /\ IF got.raised # "none"
                  THEN /\ raised' = got.raised
                       /\ pc' = "idle"
                       /\ grow_by' = grow_by
                  ELSE /\ raised' = raised
                       /\ pc' = "loop"
                       /\ grow_by' = got.value
    /\ UNCHANGED <<last_call, linkVars, polymerVars, tableVars, ratesVars,
                   substituteVars, caller, n, matrix>>

\* a round that expands only the states the accumulator did not hold yet
AllWithNLinksLoopExpandsNewOnly ==
    /\ pc = "loop"
    /\ new # old
    /\ \E got \in {union_of_reachable(grow_by \ new)} :
           /\ old' = new
           /\ new' = new \union grow_by
           /\ IF got.raised # "none"
                  THEN /\ raised' = got.raised
                       /\ pc' = "idle"
                       /\ grow_by' = grow_by
                  ELSE /\ raised' = raised
                       /\ pc' = "loop"
                       /\ grow_by' = got.value
    /\ UNCHANGED <<last_call, linkVars, polymerVars, tableVars, ratesVars,
                   substituteVars, caller, n, matrix>>

\* one round of the loop: while new != old
AllWithNLinksLoop ==
    /\ pc = "loop"
    /\ new # old
    /\ \E got \in {union_of_reachable(grow_by)} :
           /\ old' = new
           /\ new' = new \union grow_by
           /\ IF got.raised # "none"
                  THEN /\ raised' = got.raised
                       /\ pc' = "idle"
                       /\ grow_by' = grow_by
                  ELSE /\ raised' = raised
                       /\ pc' = "loop"
                       /\ grow_by' = got.value
    /\ UNCHANGED <<last_call, linkVars, polymerVars, tableVars, ratesVars,
                   substituteVars, caller, n, matrix>>

\* the loop ends: return new
AllWithNLinksReturn ==
    /\ pc = "loop"
    /\ new = old
    /\ caller = "all_with_n_links"
    /\ pc' = "returned"
    /\ UNCHANGED <<last_call, raised, linkVars, polymerVars, tableVars,
                   ratesVars, substituteVars, caller, n, old, new, grow_by,
                   matrix>>

\* Polymer.transition_matrix(count, table, combine) is called:
\* states = all_with_n_links(count)
TransitionMatrixBegin(count, table, combine) ==
    /\ Fresh
    /\ last_call' = "transition_matrix"
    /\ ClosureBegin("transition_matrix", count)
    /\ move_rates' = table
    /\ sum_with' = combine
    /\ zero' = 0
    /\ ResetLink /\ ResetPolymer /\ ResetRates /\ ResetSubstitute
    /\ matrix' = NoMatrix

\* all_with_n_links has returned to transition_matrix: the entries are recorded
TransitionMatrixAssemble ==
    /\ pc = "loop"
    /\ new = old
    /\ caller = "transition_matrix"
    /\ pc' = "returned"
    /\ matrix' = TransitionMatrixNew(new, move_rates, sum_with, zero)
    /\ UNCHANGED <<last_call, raised, linkVars, polymerVars, tableVars,
                   ratesVars, substituteVars, caller, n, old, new, grow_by>>

Next ==
    \/ \E v \in LinkInputs : LinkCall(v)
    \/ \E ls \in PolymerInputs : PolymerCall(ls)
    \/ \E link_count \in 0..MaxLen : AllCurledUpCall(link_count)
    \/ \E table \in RateTables, combine \in Combinators, z \in Zeros :
          TransitionRatesCall(table, combine, z)
    \/ ReachableFromCall
    \/ \E p \in 0..Len(polymer), pr \in SubstituteInputs \X SubstituteInputs :
          SubstitutePairCall(p, pr)
    \/ \E count \in 0..MaxN : AllWithNLinksBegin(count)
    \/ AllWithNLinksLoop
    \/ AllWithNLinksReturn
    \/ \E count \in 0..MaxN, table \in RateTables, combine \in Combinators :
          TransitionMatrixBegin(count, table, combine)
    \/ TransitionMatrixAssemble

Spec == Init /\ [][Next]_vars

\* what every round of the loop does first: old takes the accumulator
LoopRound == pc = "loop" /\ new # old /\ old' = new

\* a call that has entered the loop keeps running: while new != old the
\* interpreter executes the next round, and once new == old the return
FairSpec ==
    /\ Spec
    /\ WF_old(LoopRound)
    /\ WF_vars(AllWithNLinksReturn)

(* ------------------------------------------------------------------ *)
(* Properties                                                           *)
(* ------------------------------------------------------------------ *)

\* the five link values, by name
FiveLinks == {UP, DOWN, LEFT, RIGHT, SLACK}

\* the pair positions of a polymer, counted from 0
Positions(self) == 0..Len(self)

\* what transformer t yields at position p of self
Yield(t, self, p) ==
    polymer_transformers(t, self, p, link_pairs(self)[p + 1]).value

\* C1: for every N >= 1 all_with_n_links(N) returns exactly the 5^N distinct
\* sequences of N links over {UP, DOWN, LEFT, RIGHT, SLACK}.
C1_AllWithNLinksIsEverySequence ==
    (pc = "returned" /\ n >= 1) =>
        /\ Cardinality(new) = 5^n
        /\ new = [1..n -> FiveLinks]

C1_Witness ==
    /\ pc = "returned"
    /\ caller = "all_with_n_links"
    /\ n = 3
    /\ Cardinality(new) = 125

\* C2: a Polymer is never a member of its own reachable_from(), and no rule
\* at any pair position proposes the current configuration.
C2_NoSelfLoop ==
    "reachable_from" \in done =>
        /\ polymer \notin reachable
        /\ \A p \in Positions(polymer), t \in 1..TransformerCount :
              polymer \notin Yield(t, polymer, p)

C2_Witness ==
    /\ "reachable_from" \in done
    /\ polymer = <<RIGHT, UP, DOWN>>
    /\ <<RIGHT, DOWN, UP>> \in reachable

\* the (position, transformer) pairs that produce q from self
Producers(self, q) ==
    { pt \in Positions(self) \X (1..TransformerCount) :
        q \in Yield(pt[2], self, pt[1]) }

\* the combine-fold of table[K] over a set of producers, from acc
RECURSIVE FoldRates(_, _, _, _)
FoldRates(producers, table, combine, acc) ==
    IF producers = {}
        THEN acc
        ELSE LET pt == CHOOSE x \in producers : TRUE
             IN  FoldRates(producers \ {pt}, table, combine,
                           SumWith(combine, acc, table[MoveTypeOf(pt[2])]))

\* the rates the documentation of transition_rates describes
DocumentedRates(self, table, combine, z) ==
    [ q \in UNION { Yield(pt[2], self, pt[1]) :
                    pt \in Positions(self) \X (1..TransformerCount) } |->
        FoldRates(Producers(self, q), table, combine, z) ]

\* the bitwise OR of all values of a dict
RECURSIVE OrOfValues(_)
OrOfValues(r) ==
    IF DOMAIN r = {}
        THEN 0
        ELSE LET q == CHOOSE x \in DOMAIN r : TRUE
             IN  BitOr(r[q], OrOfValues([x \in (DOMAIN r) \ {q} |-> r[x]]))

\* whether the bit of a MoveType is set in x
HasBit(x, move_type) == (x \div move_type) % 2 = 1

\* C3: transition_rates maps each resulting Polymer to the combine-fold of
\* table[K] over every (position, rule) pair of kind K that produces it; with
\* the identity table and bitwise OR, to the OR of the MoveTypes producing it.
C3_RatesFoldTheTable ==
    ("transition_rates" \in done /\ DOMAIN move_rates = MOVE_TYPES /\ zero = 0) =>
        rates = DocumentedRates(polymer, move_rates, sum_with, zero)

\* C4: with the identity table and bitwise OR, whenever a rule of kind K
\* applies at some pair position, the OR of all values has bit K set; for
\* [RIGHT, SLACK, SLACK] it holds END_CONTRACTION, END_EXTENSION, END_WIGGLE.
C4_MoveKindsPresent ==
    ( /\ "transition_rates" \in done
      /\ move_rates = MOVE_RATES
      /\ sum_with = "or_"
      /\ zero = 0 ) =>
        /\ \A p \in Positions(polymer), t \in 1..TransformerCount :
              Yield(t, polymer, p) # {} =>
                  HasBit(OrOfValues(rates), MoveTypeOf(t))
        /\ polymer = <<RIGHT, SLACK, SLACK>> =>
              \A k \in {END_CONTRACTION, END_EXTENSION, END_WIGGLE} :
                  HasBit(OrOfValues(rates), k)

\* C5: the key set of transition_rates(T, combine) equals reachable_from(),
\* whatever the table and the combinator.
C5_KeysAreReachable ==
    {"transition_rates", "reachable_from"} \subseteq done =>
        DOMAIN rates = reachable

C5_Witness ==
    /\ {"transition_rates", "reachable_from"} \subseteq done
    /\ move_rates = MOVE_RATES
    /\ sum_with = "or_"
    /\ polymer = <<UP, DOWN>>
    /\ DOMAIN rates = reachable
    /\ <<SLACK, SLACK>> \in reachable

\* C6: matrix[s, t] equals transition_rates(s, T, combine)[t] when t is in
\* reachable_from(s) and the zero value otherwise; for N = 2 the entry
\* [[UP, RIGHT], [SLACK, RIGHT]] equals T[END_CONTRACTION].
C6_MatrixEntries ==
    matrix.built =>
        /\ \A s \in matrix_states(matrix) :
           \A got \in {transition_rates(s, move_rates, sum_with, zero)} :
           \A reach \in {reachable_from(s)} :
           \A t \in matrix_states(matrix) :
              matrix_getitem(matrix, s, t) =
                  IF t \in reach.value THEN got.value[t] ELSE zero
        /\ (n = 2 /\ DOMAIN move_rates = MOVE_TYPES) =>
              matrix_getitem(matrix, <<UP, RIGHT>>, <<SLACK, RIGHT>>)
                  = move_rates[END_CONTRACTION]

C8_EmptyChainRejected ==
    /\ (last_call \in {"Polymer", "all_curled_up"} /\ links = << >>) =>
          (raised # "none" /\ ~constructed)
    /\ constructed => Len(polymer) >= 1

\* C9: reachable_from and transition_rates return, raising nothing, for every
\* Polymer whose construction succeeded, whatever the rate table.
C9_QueriesAreTotal ==
    (constructed /\ last_call \in {"transition_rates", "reachable_from"}) =>
        raised = "none"

\* C10: Link(v) fails for every v that is none of the five link values, and
\* so does Polymer(...) on a sequence holding such a v; Link(v) on each of
\* the five values succeeds and yields a Link equal to v.
C10_OnlyFiveLinkValues ==
    /\ last_call = "Link" =>
          IF value \in FiveLinks
              THEN raised = "none" /\ link = value
              ELSE raised = "ValueError"
    /\ (last_call = "Polymer"
          /\ \E i \in 1..Len(links) : links[i] \notin FiveLinks) =>
          (raised = "ValueError" /\ ~constructed)

C10_Witness ==
    /\ last_call = "Polymer"
    /\ links = <<UP, InvalidThirtyTwo, SLACK>>
    /\ raised = "ValueError"
    /\ ~constructed

\* substitute_pair was called on a Polymer of at least one link
Substituted == last_call = "substitute_pair" /\ Len(polymer) >= 1

\* C11: on a Polymer of N links, substitute_pair(p, (first, second)) returns
\* for p = 0 the polymer with only link_0 replaced by second, for p = N the
\* polymer with only link_{N-1} replaced by first, and for 1 <= p <= N-1 the
\* polymer with link_{p-1} replaced by first and link_p by second; the other
\* links are unchanged and the length stays N.  (link_j is polymer[j + 1].)
C11_SubstitutePair ==
    Substituted =>
        LET N == Len(polymer)
            first == replacement_pair[1]
            second == replacement_pair[2]
        IN  /\ (position = 0 /\ second \in FiveLinks) =>
                  /\ raised = "none"
                  /\ substituted = [polymer EXCEPT ![1] = second]
            /\ (position = N /\ first \in FiveLinks) =>
                  /\ raised = "none"
                  /\ substituted = [polymer EXCEPT ![N] = first]
            /\ (position \in 1..(N - 1) /\ {first, second} \subseteq FiveLinks) =>
                  /\ raised = "none"
                  /\ substituted = [polymer EXCEPT ![position] = first,
                                                   ![position + 1] = second]
            /\ raised = "none" => Len(substituted) = N

C11_Witness ==
    /\ Substituted
    /\ polymer = <<SLACK, SLACK, SLACK>>
    /\ position = 2
    /\ replacement_pair = <<LEFT, UP>>
    /\ substituted = <<SLACK, LEFT, UP>>

\* the pair position of the last substitute_pair call is interior and both
\* members of the new pair are links
InteriorSubstitution ==
    /\ Substituted
    /\ position \in 1..(Len(polymer) - 1)
    /\ {replacement_pair[1], replacement_pair[2]} \subseteq FiveLinks

\* C12 as stated: substituting the pair at an interior position p with
\* (first, second) sets link_{p-1} to second and link_p to first.
C12_InteriorSetsSecondThenFirst ==
    InteriorSubstitution =>
        /\ substituted[position] = replacement_pair[2]
        /\ substituted[position + 1] = replacement_pair[1]

\* C12 amended: substituting the pair at an interior position p with
\* (first, second) sets link_{p-1} to first and link_p to second.
C12_InteriorSetsFirstThenSecond ==
    InteriorSubstitution =>
        /\ substituted[position] = replacement_pair[1]
        /\ substituted[position + 1] = replacement_pair[2]

C12_Witness ==
    /\ InteriorSubstitution
    /\ polymer = <<UP, UP, UP>>
    /\ position = 1
    /\ replacement_pair = <<LEFT, SLACK>>
    /\ substituted = <<LEFT, SLACK, UP>>

\* reachable_from() returned for a Polymer of at least one link
Reached == "reachable_from" \in done /\ Len(polymer) >= 1

\* the polymer with the links of pair position p (1 <= p <= N-1) set to a, b
WithPair(self, p, a, b) == [self EXCEPT ![p] = a, ![p + 1] = b]

\* the interior pair positions of a polymer
Interior(self) == 1..(Len(self) - 1)

\* C13: for every Polymer P of N >= 1 links and every link value v other than
\* P's first link, P with its first link set to v is in reachable_from(P),
\* and the same for the last link: a taut end contracts to SLACK, a SLACK end
\* extends to each of the 4 taut directions, a taut end wiggles to each of
\* the 3 other taut directions.
C13_EndLinkBecomesAnythingElse ==
    Reached =>
        \A e \in {1, Len(polymer)}, v \in FiveLinks :
            LET q == [polymer EXCEPT ![e] = v]
                at_end(t) == Yield(t, polymer, 0) \union
                                 Yield(t, polymer, Len(polymer))
            IN  v # polymer[e] =>
                    /\ q \in reachable
                    /\ (polymer[e] # SLACK /\ v = SLACK) => q \in at_end(1)
                    /\ polymer[e] = SLACK => q \in at_end(2)
                    /\ (polymer[e] # SLACK /\ v # SLACK) => q \in at_end(3)

C13_Witness ==
    /\ Reached
    /\ polymer = <<SLACK, LEFT, DOWN>>
    /\ {<<UP, LEFT, DOWN>>, <<SLACK, LEFT, SLACK>>, <<SLACK, LEFT, RIGHT>>}
           \subseteq reachable

\* C14: for every Polymer P and every interior pair position whose links are
\* both SLACK, P with that pair replaced by (UP,DOWN), (DOWN,UP),
\* (LEFT,RIGHT) and (RIGHT,LEFT) are all in reachable_from(P); in particular
\* reachable_from([SLACK,SLACK]) contains the four two-link hernias.
C14_SlackPairBecomesAnyHernia ==
    Reached =>
        /\ \A p \in Interior(polymer) :
              (polymer[p] = SLACK /\ polymer[p + 1] = SLACK) =>
                  \A h \in {<<UP, DOWN>>, <<DOWN, UP>>,
                            <<LEFT, RIGHT>>, <<RIGHT, LEFT>>} :
                      WithPair(polymer, p, h[1], h[2]) \in reachable
        /\ polymer = <<SLACK, SLACK>> =>
              {<<UP, DOWN>>, <<DOWN, UP>>, <<LEFT, RIGHT>>, <<RIGHT, LEFT>>}
                  \subseteq reachable

C14_Witness ==
    /\ Reached
    /\ polymer = <<UP, SLACK, SLACK>>
    /\ {<<UP, UP, DOWN>>, <<UP, DOWN, UP>>, <<UP, LEFT, RIGHT>>,
        <<UP, RIGHT, LEFT>>} \subseteq reachable

\* two taut links pointing in opposite directions
Opposite(a, b) ==
    <<a, b>> \in {<<UP, DOWN>>, <<DOWN, UP>>, <<LEFT, RIGHT>>, <<RIGHT, LEFT>>}

\* C15: for every Polymer P and every interior pair position holding a
\* hernia, reachable_from(P) contains P with that pair replaced by
\* (SLACK,SLACK) and by each of the three other opposite-direction pairs, and
\* no rule at that position yields the current orientation; e.g.
\* reachable_from([UP,DOWN]) contains [LEFT,RIGHT], [RIGHT,LEFT], [DOWN,UP],
\* [SLACK,SLACK] and excludes [UP,DOWN].
C15_HerniaRedirectsAndAnnihilates ==
    Reached =>
        /\ \A p \in Interior(polymer) :
              Opposite(polymer[p], polymer[p + 1]) =>
                  /\ WithPair(polymer, p, SLACK, SLACK) \in reachable
                  /\ \A a, b \in FiveLinks :
                        (Opposite(a, b) /\ <<a, b>> # <<polymer[p], polymer[p + 1]>>)
                            => WithPair(polymer, p, a, b) \in reachable
                  /\ \A t \in 1..TransformerCount :
                        polymer \notin Yield(t, polymer, p)
        /\ polymer = <<UP, DOWN>> =>
              /\ {<<LEFT, RIGHT>>, <<RIGHT, LEFT>>, <<DOWN, UP>>, <<SLACK, SLACK>>}
                     \subseteq reachable
              /\ <<UP, DOWN>> \notin reachable

C15_Witness ==
    /\ Reached
    /\ polymer = <<LEFT, RIGHT, SLACK>>
    /\ {<<SLACK, SLACK, SLACK>>, <<RIGHT, LEFT, SLACK>>, <<UP, DOWN, SLACK>>,
        <<DOWN, UP, SLACK>>} \subseteq reachable

\* C16: for every Polymer P and every interior pair position where exactly
\* one of the two links is SLACK, P with those two links swapped is in
\* reachable_from(P); an interior (SLACK,SLACK) pair gives no reptation
\* result.
C16_ReptationSwapsOneSlack ==
    Reached =>
        \A p \in Interior(polymer) :
            /\ ((polymer[p] = SLACK) # (polymer[p + 1] = SLACK)) =>
                  /\ WithPair(polymer, p, polymer[p + 1], polymer[p]) \in reachable
                  /\ WithPair(polymer, p, polymer[p + 1], polymer[p])
                         \in Yield(5, polymer, p)
            /\ (polymer[p] = SLACK /\ polymer[p + 1] = SLACK) =>
                  Yield(5, polymer, p) = {}

C16_Witness ==
    /\ Reached
    /\ polymer = <<SLACK, SLACK, UP>>
    /\ <<SLACK, UP, SLACK>> \in reachable

\* one link horizontal, the other vertical
Perpendicular(a, b) ==
    \/ a \in {LEFT, RIGHT} /\ b \in {UP, DOWN}
    \/ a \in {UP, DOWN} /\ b \in {LEFT, RIGHT}

\* C17: for every Polymer P and every interior pair position whose two links
\* are perpendicular, P with those two links swapped is in reachable_from(P);
\* e.g. [RIGHT,UP] is in reachable_from([UP,RIGHT]).
C17_BarrierCrossingSwapsBentPair ==
    Reached =>
        /\ \A p \in Interior(polymer) :
              Perpendicular(polymer[p], polymer[p + 1]) =>
                  WithPair(polymer, p, polymer[p + 1], polymer[p]) \in reachable
        /\ polymer = <<UP, RIGHT>> => <<RIGHT, UP>> \in reachable

C17_Witness ==
    /\ Reached
    /\ polymer = <<DOWN, LEFT, SLACK>>
    /\ <<LEFT, DOWN, SLACK>> \in reachable

\* what is reachable from the members of acc by zero or more single moves,
\* frontier being the members of acc not expanded yet
RECURSIVE MovesClosure(_, _)
MovesClosure(acc, frontier) ==
    IF frontier = {}
        THEN acc
        ELSE LET found == UNION { reachable_from(s).value : s \in frontier }
             IN  MovesClosure(acc \union found, found \ acc)

\* all_with_n_links(n) returned, n >= 1
Returned == pc = "returned" /\ caller = "all_with_n_links" /\ n >= 1

\* C18: the set returned by all_with_n_links(N) is exactly what is reachable
\* from the all-SLACK chain by zero or more single moves: it contains the
\* all-SLACK chain, reachable_from(s) is a subset of it for every member s,
\* and the loop does not stop before this closure is reached.
C18_ResultIsTheClosure ==
    Returned =>
        LET curled_up == all_curled_up(n).value
        IN  /\ curled_up \in new
            /\ \A s \in new : reachable_from(s).value \subseteq new
            /\ new = MovesClosure({curled_up}, {curled_up})

C18_Witness ==
    /\ Returned
    /\ n = 2
    /\ <<SLACK, SLACK>> \in new
    /\ <<LEFT, UP>> \in new
    /\ Cardinality(new) = 25

\* C19: for every N >= 1 the loop of all_with_n_links(N) terminates: once in
\* the loop, after finitely many rounds a round adds nothing and the
\* accumulator is returned.
C19_ClosureLoopTerminates ==
    (pc = "loop" /\ caller = "all_with_n_links")
        ~> (pc = "returned" /\ new = old)

C19_Witness ==
    /\ pc = "returned"
    /\ caller = "all_with_n_links"
    /\ n = 1
    /\ new = old
    /\ new = {<<UP>>, <<DOWN>>, <<LEFT>>, <<RIGHT>>, <<SLACK>>}

\* the frontier of the first round is reachable_from(all-SLACK chain)
FrontierStarts ==
    (pc = "loop" /\ old = {}) =>
        grow_by = reachable_from(all_curled_up(n).value).value

\* C20 as stated: the frontier starts as reachable_from(all-SLACK chain), and
\* in every later round reachable_from is computed only over states newly
\* added to the accumulator: no state the round expands was in the
\* accumulator before the round.
C20_OnlyNewStatesExpanded ==
    /\ FrontierStarts
    /\ (pc = "loop" /\ new # old) => grow_by \cap new = {}

\* C20 amended: the frontier starts as reachable_from(all-SLACK chain), and
\* every later round computes reachable_from over every state of the
\* frontier the previous round produced, whether or not the accumulator
\* already held it.
C20_WholeFrontierExpanded ==
    /\ []FrontierStarts
    /\ [][(pc = "loop" /\ pc' = "loop") =>
              grow_by' = UNION { reachable_from(q).value : q \in grow_by }]_vars

C20_Witness ==
    /\ pc = "loop"
    /\ new # old
    /\ n = 2
    /\ old # {}
    /\ grow_by \cap old # {}
    /\ grow_by \ new # {}

\* the transformers built by at_end_pairs, and the five others
EndRules == {1, 2, 3}
InteriorRules == (1..TransformerCount) \ EndRules

\* reachable_from() has just returned, as the first query on a Polymer of at
\* least one link
JustReached ==
    /\ Reached
    /\ last_call = "reachable_from"
    /\ done = {"reachable_from"}

\* C21: the end rules (contraction, extension, wiggle) produce results only
\* at pair positions 0 and N, the interior rules (hernia creation, reptation,
\* hernia annihilation, hernia redirection, barrier crossing) only at
\* positions 1..N-1, and no interior rule yields anything for a pair that
\* contains the boundary sentinel.
C21_EndAndInteriorRulesKeepApart ==
    JustReached =>
        /\ \A p \in Positions(polymer), t \in 1..TransformerCount :
              Yield(t, polymer, p) # {} =>
                  /\ t \in EndRules => p \in {0, Len(polymer)}
                  /\ t \in InteriorRules => p \in Interior(polymer)
        /\ \A p \in Positions(polymer), t \in InteriorRules, l \in FiveLinks :
              /\ polymer_transformers(t, polymer, p, <<None, l>>).value = {}
              /\ polymer_transformers(t, polymer, p, <<l, None>>).value = {}

C21_Witness ==
    /\ JustReached
    /\ polymer = <<UP, SLACK, LEFT>>
    /\ Yield(1, polymer, 0) = {<<SLACK, SLACK, LEFT>>}
    /\ Yield(5, polymer, 1) = {<<SLACK, UP, LEFT>>}
    /\ Yield(5, polymer, 0) = {}

\* every chain of k links
Chains(k) == [1..k -> FiveLinks]

\* the single moves between chains of k links: the pairs <<P, Q>> with Q in
\* P.reachable_from()
SingleMoves(k) ==
    UNION { { <<s, q>> : q \in reachable_from(s).value } : s \in Chains(k) }

\* C22: single moves are reversible: for all Polymers P and Q of the same
\* length, Q is in reachable_from(P) if and only if P is in
\* reachable_from(Q); looked at once all_with_n_links(N) has asked every
\* chain of N links for its reachable_from().
C22_SingleMovesAreReversible ==
    Returned =>
        LET moves == SingleMoves(n)
        IN  /\ moves \subseteq new \X new
            /\ \A m \in moves : <<m[2], m[1]>> \in moves

C22_Witness ==
    /\ Returned
    /\ n = 3
    /\ {<<LEFT, RIGHT, UP>>, <<SLACK, SLACK, UP>>} \subseteq new
    /\ <<SLACK, SLACK, UP>> \in reachable_from(<<LEFT, RIGHT, UP>>).value
    /\ <<LEFT, RIGHT, UP>> \in reachable_from(<<SLACK, SLACK, UP>>).value

\* what a finite sequence of the given moves reaches from the members of acc
RECURSIVE ReachedFrom(_, _)
ReachedFrom(acc, moves) ==
    LET more == acc \union { m[2] : m \in { e \in moves : e[1] \in acc } }
    IN  IF more = acc THEN acc ELSE ReachedFrom(more, moves)

\* what reaches a member of acc by a finite sequence of the given moves
RECURSIVE Reaching(_, _)
Reaching(acc, moves) ==
    LET more == acc \union { m[1] : m \in { e \in moves : e[2] \in acc } }
    IN  IF more = acc THEN acc ELSE Reaching(more, moves)

\* C23: for every N >= 1 and any two configurations A and B of N links, B is
\* reachable from A by a finite sequence of single moves.  Every A reaches
\* the all-SLACK chain and the all-SLACK chain reaches every B, which is the
\* same as the move graph being strongly connected.
C23_MoveGraphStronglyConnected ==
    Returned =>
        LET curled_up == all_curled_up(n).value
            moves == SingleMoves(n)
        IN  /\ Reaching({curled_up}, moves) = Chains(n)
            /\ ReachedFrom({curled_up}, moves) = Chains(n)

C23_Witness ==
    /\ Returned
    /\ n = 2
    /\ <<UP, LEFT>> \in Reaching({<<SLACK, SLACK>>}, SingleMoves(2))
    /\ <<UP, LEFT>> \in ReachedFrom({<<SLACK, SLACK>>}, SingleMoves(2))

\* the positions (from 1) at which two chains of one length differ
Differing(P, Q) == { i \in 1..Len(P) : P[i] # Q[i] }

\* C24: every Q in reachable_from(P) has as many links as P and differs from
\* P in exactly one link that is the first or the last, or in exactly two
\* adjacent links; all other links of Q equal those of P.
C24_MovesChangeOneEndOrTwoNeighbours ==
    JustReached =>
        \A Q \in reachable :
            /\ Len(Q) = Len(polymer)
            /\ \/ Differing(polymer, Q) = {1}
               \/ Differing(polymer, Q) = {Len(polymer)}
               \/ \E i \in Interior(polymer) :
                      Differing(polymer, Q) = {i, i + 1}

C24_Witness ==
    /\ JustReached
    /\ polymer = <<UP, RIGHT, SLACK>>
    /\ {<<RIGHT, UP, SLACK>>, <<UP, SLACK, RIGHT>>, <<UP, RIGHT, DOWN>>,
        <<SLACK, RIGHT, SLACK>>} \subseteq reachable

\* transition_rates() has just returned, as the first query on a Polymer of
\* at least one link
JustRated ==
    /\ Len(polymer) >= 1
    /\ last_call = "transition_rates"
    /\ done = {"transition_rates"}

\* a table that rates every kind of move at z
ConstantRates(z) == [k \in MOVE_TYPES |-> z]

\* combine folded over z only: from z, once more for each (position, rule)
\* that yields the key
ZeroFoldRates(self, combine, z) ==
    LET yields == { <<pt, Yield(pt[2], self, pt[1])>> :
                    pt \in Positions(self) \X (1..TransformerCount) }
    IN  [ q \in UNION { y[2] : y \in yields } |->
            FoldRates({ y[1] : y \in { x \in yields : q \in x[2] } },
                      ConstantRates(z), combine, z) ]

C26_OneProducerPerTarget ==
    /\ JustReached =>
          \A Q \in reachable :
              /\ Len(polymer) >= 2 => Cardinality(Producers(polymer, Q)) = 1
              /\ Len(polymer) = 1 => Cardinality(Producers(polymer, Q)) > 1
    /\ (JustRated /\ Len(polymer) >= 2 /\ sum_with = "add" /\ zero = 1) =>
          \A Q \in DOMAIN rates : rates[Q] = 2

C26_Witness ==
    /\ JustRated
    /\ polymer = <<LEFT, UP, DOWN>>
    /\ sum_with = "add"
    /\ zero = 1
    /\ rates[<<LEFT, SLACK, SLACK>>] = 2
    /\ Producers(polymer, <<LEFT, SLACK, SLACK>>) = {<<2, 6>>}

====
